---- MODULE Spec2Model ----
(***************************************************************************)
(* Rational trigonometry (rat_trig.trigonom): dot, cross, quad, spread,    *)
(* archimedes, spread_law and triple_quad_formula over Python's numeric    *)
(* tower.  A number is one of                                              *)
(*   int       an arbitrary-precision integer, kept as the coefficients    *)
(*             n[1], n[2], ... of n[1] + n[2]*H + n[3]*H^2 + ... in the    *)
(*             base H = 2^HugeExp (no trailing zero coefficient, <<>> is   *)
(*             0): the small ints have one coefficient, and the further    *)
(*             ones reach the ints beyond the range of a double;           *)
(*   Fraction  n/d in lowest terms with d > 0 (fractions.Fraction);        *)
(*   float     an IEEE-754 double: sign n, exponent e, 53 significand bits *)
(*             m (m[1] is the leading bit), which the functions produce    *)
(*             only as the result of dividing an int by an int;            *)
(* or one of the exceptions a division raises.  The functions are called   *)
(* with int and Fraction arguments; a call is one step of the model.       *)
(* Every coefficient is far below H in magnitude, so the arithmetic on     *)
(* coefficient sequences is the arithmetic of the integers they stand for. *)
(***************************************************************************)
EXTENDS Integers, Sequences, FiniteSets, TLC

\* ------------------------------------------------------------------ bounds
\* largest magnitude of a small int argument and of a Fraction's numerator
MaxNum == 2
\* the denominator of the Fraction arguments that are not whole
MaxDen == 2
\* the huge int arguments are H and -H, H = 2^HugeExp
HugeExp == 600
\* number of threads calling the functions at the same time
NumThreads == 2

\* ------------------------------------------------- float format (CPython)
\* significand bits of a double (sys.float_info.mant_dig)
DBL_MANT_DIG == 53
\* a double is below 2^DBL_MAX_EXP in magnitude (sys.float_info.max_exp)
DBL_MAX_EXP == 1024
\* the least normal double is 2^(DBL_MIN_EXP - 1) (sys.float_info.min_exp)
DBL_MIN_EXP == -1021

\* ---------------------------------------------------------- integer helpers
Abs(x) == IF x < 0 THEN -x ELSE x

Sign(x) == IF x < 0 THEN -1 ELSE IF x = 0 THEN 0 ELSE 1

Max(x, y) == IF x < y THEN y ELSE x

RECURSIVE GCD(_, _)
GCD(a, b) == IF b = 0 THEN Abs(a) ELSE GCD(b, a % Abs(b))

RECURSIVE Pow2(_)
Pow2(k) == IF k = 0 THEN 1 ELSE 2 * Pow2(k - 1)

\* ------------------------------------------------ arbitrary-precision ints
\* drop the trailing zero coefficients
RECURSIVE Trim(_)
Trim(a) ==
    IF a = <<>> \/ a[Len(a)] # 0 THEN a ELSE Trim(SubSeq(a, 1, Len(a) - 1))

\* coefficient i of a, 0 beyond its length
Coef(a, i) == IF i \in 1..Len(a) THEN a[i] ELSE 0

BigAdd(a, b) == Trim([i \in 1..Max(Len(a), Len(b)) |-> Coef(a, i) + Coef(b, i)])

BigNeg(a) == [i \in 1..Len(a) |-> -a[i]]

BigSub(a, b) == BigAdd(a, BigNeg(b))

\* a[1]*b[i] + a[2]*b[i-1] + ... + a[j]*b[i-j+1]
RECURSIVE Convolve(_, _, _, _)
Convolve(a, b, i, j) ==
    IF j = 0 THEN 0 ELSE a[j] * Coef(b, i - j + 1) + Convolve(a, b, i, j - 1)

BigMul(a, b) ==
    IF a = <<>> \/ b = <<>> THEN <<>>
    ELSE Trim([i \in 1..(Len(a) + Len(b) - 1) |-> Convolve(a, b, i, Len(a))])

\* a * H^j
BigShift(a, j) == IF a = <<>> THEN a ELSE [i \in 1..j |-> 0] \o a

\* the sign of a: its leading coefficient outweighs the lower ones
BigSign(a) == IF a = <<>> THEN 0 ELSE Sign(a[Len(a)])

BigAbs(a) == IF BigSign(a) < 0 THEN BigNeg(a) ELSE a

\* the int a as a TLC integer, for an a of at most one coefficient
Small(a) == Coef(a, 1)

\* ------------------------------------------------------------------ values
\* the int x, |x| < H
Int_(x) == [k |-> "int", n |-> Trim(<<x>>), d |-> 1, e |-> 0, m |-> <<>>]

\* the int with coefficients a
BigInt(a) == [k |-> "int", n |-> a, d |-> 1, e |-> 0, m |-> <<>>]

\* Fraction(num, den): reduced to lowest terms, sign carried by the numerator
Fraction(num, den) ==
    LET g == GCD(num, den)
        s == Sign(den)
    IN  [k |-> "frac", n |-> s * (num \div g), d |-> s * (den \div g),
         e |-> 0, m |-> <<>>]

\* the float with sign s, exponent ex and significand bits mant
Float(s, ex, mant) == [k |-> "float", n |-> s, d |-> 1, e |-> ex, m |-> mant]

\* 0.0 (-0.0 is not told apart: the two compare equal)
FloatZero == Float(0, 0, [i \in 1..DBL_MANT_DIG |-> 0])

ZeroDivisionError == [k |-> "ZeroDivisionError", n |-> 0, d |-> 1, e |-> 0, m |-> <<>>]

OverflowError == [k |-> "OverflowError", n |-> 0, d |-> 1, e |-> 0, m |-> <<>>]

IsError(x) == x.k \in {"ZeroDivisionError", "OverflowError"}

\* numerator and denominator of an exact value as ints
Numer(x) == IF x.k = "int" THEN x.n ELSE Trim(<<x.n>>)

Denom(x) == <<x.d>>

\* ------------------------------------------- binary expansion of a quotient
\* the exponent ex with 2^ex <= num/den < 2^(ex+1), for num, den > 0
RECURSIVE FloorLog2(_, _)
FloorLog2(num, den) ==
    IF num < den THEN FloorLog2(2 * num, den) - 1
    ELSE IF num >= 2 * den THEN FloorLog2(num, 2 * den) + 1
    ELSE 0

\* the next significand bits of rem/den (rem < den), up to DBL_MANT_DIG bits in
\* all, and the remainder left after the last one
RECURSIVE Bits(_, _, _)
Bits(rem, den, mant) ==
    IF Len(mant) = DBL_MANT_DIG THEN [m |-> mant, r |-> rem]
    ELSE IF 2 * rem >= den THEN Bits(2 * rem - den, den, Append(mant, 1))
    ELSE Bits(2 * rem, den, Append(mant, 0))

\* num/den (num, den > 0) truncated to DBL_MANT_DIG significant bits:
\* exponent e, bits m, remainder r over the scaled denominator den
Expand(num, den) ==
    LET ex == FloorLog2(num, den)
        sn == IF ex < 0 THEN num * Pow2(-ex) ELSE num
        sd == IF ex > 0 THEN den * Pow2(ex) ELSE den
        b  == Bits(sn - sd, sd, <<1>>)
    IN  [e |-> ex, m |-> b.m, r |-> b.r, den |-> sd]

\* a/b for ints a, b > 0.  With la, lb the leading coefficients and
\* j = Len(a) - Len(b), a/b is (la/lb) * H^j * (1 + t) for a t far smaller
\* than the last bit of any double: e, m are the exponent and the bits of
\* (la/lb) * H^j, half is the sign of (its remainder - half a unit in the last
\* place), exact tells that the remainder is 0, and t is the sign of t
Quotient(a, b) ==
    LET la == a[Len(a)]
        lb == b[Len(b)]
        j  == Len(a) - Len(b)
        x  == Expand(la, lb)
        sa == BigMul(a, <<lb>>)
        sb == BigMul(b, <<la>>)
    IN  [e     |-> x.e + HugeExp * j,
         m     |-> x.m,
         half  |-> Sign(2 * x.r - x.den),
         exact |-> x.r = 0,
         t     |-> IF j >= 0 THEN BigSign(BigSub(sa, BigShift(sb, j)))
                   ELSE BigSign(BigSub(BigShift(sa, -j), sb))]

\* the significand plus one unit in the last place; c is the carry out
RECURSIVE Increment(_, _)
Increment(mant, i) ==
    IF i = 0 THEN [m |-> mant, c |-> 1]
    ELSE IF mant[i] = 0 THEN [m |-> [mant EXCEPT ![i] = 1], c |-> 0]
    ELSE Increment([mant EXCEPT ![i] = 0], i - 1)

\* -1, 0, 1 as the bit sequence a is below, equal to, above b (equal lengths)
RECURSIVE CmpBits(_, _, _)
CmpBits(a, b, i) ==
    IF i > Len(a) THEN 0
    ELSE IF a[i] < b[i] THEN -1
    ELSE IF a[i] > b[i] THEN 1
    ELSE CmpBits(a, b, i + 1)

\* ------------------------------------------------------------- comparison
\* -1, 0, 1 as x is below, equal to, above y, both exact
CmpExact(x, y) ==
    BigSign(BigSub(BigMul(Numer(x), Denom(y)), BigMul(Numer(y), Denom(x))))

\* a float against the exact value x: Python compares the two exactly, never
\* after rounding x
CmpFloatExact(f, x) ==
    LET sx == BigSign(Numer(x))
    IN  IF f.n # sx THEN Sign(f.n - sx)
        ELSE IF f.n = 0 THEN 0
        ELSE LET q == Quotient(BigAbs(Numer(x)), Denom(x))
                 c == CmpBits(f.m, q.m, 1)
                 mag == IF f.e # q.e THEN Sign(f.e - q.e)
                        ELSE IF c # 0 THEN c
                        ELSE IF ~q.exact THEN -1
                        ELSE -q.t
             IN  f.n * mag

\* a float against a float
CmpFloat(f, g) ==
    IF f.n # g.n THEN Sign(f.n - g.n)
    ELSE IF f.n = 0 THEN 0
    ELSE LET c == CmpBits(f.m, g.m, 1)
         IN  f.n * (IF f.e # g.e THEN Sign(f.e - g.e) ELSE c)

\* -1, 0, 1 as x < y, x == y, x > y
Cmp(x, y) ==
    IF x.k = "float" /\ y.k = "float" THEN CmpFloat(x, y)
    ELSE IF x.k = "float" THEN CmpFloatExact(x, y)
    ELSE IF y.k = "float" THEN -CmpFloatExact(y, x)
    ELSE CmpExact(x, y)

\* x == y
Eq(x, y) == ~IsError(x) /\ ~IsError(y) /\ Cmp(x, y) = 0

\* x <= y
Le(x, y) == ~IsError(x) /\ ~IsError(y) /\ Cmp(x, y) <= 0

\* -------------------------------------------------------------- arithmetic
\* int op int is an int; otherwise an int operand is taken as the Fraction
\* of denominator 1 and the result is a Fraction

\* x + y
Add(x, y) ==
    IF x.k = "int" /\ y.k = "int" THEN BigInt(BigAdd(x.n, y.n))
    ELSE Fraction(Small(Numer(x)) * y.d + Small(Numer(y)) * x.d, x.d * y.d)

\* x - y
Sub(x, y) ==
    IF x.k = "int" /\ y.k = "int" THEN BigInt(BigSub(x.n, y.n))
    ELSE Fraction(Small(Numer(x)) * y.d - Small(Numer(y)) * x.d, x.d * y.d)

\* x * y with a Fraction cut down to an int when the other operand is an int
Mul_truncating(x, y) ==
    IF x.k = "int" /\ y.k = "int" THEN BigInt(BigMul(x.n, y.n))
    ELSE IF x.k = "int" \/ y.k = "int"
    THEN Int_((Small(Numer(x)) * Small(Numer(y))) \div (x.d * y.d))
    ELSE Fraction(Small(Numer(x)) * Small(Numer(y)), x.d * y.d)

\* x * y
Mul(x, y) ==
    IF x.k = "int" /\ y.k = "int" THEN BigInt(BigMul(x.n, y.n))
    ELSE Fraction(Small(Numer(x)) * Small(Numer(y)), x.d * y.d)

\* int / int: the double nearest to a/b, ties to the even significand;
\* below half the least subnormal the quotient rounds to 0.0 (the subnormal
\* range between is not reached by the arguments of the model)
TrueDivide(a, b) ==
    IF b = <<>> THEN ZeroDivisionError
    ELSE IF a = <<>> THEN FloatZero
    ELSE LET q   == Quotient(BigAbs(a), BigAbs(b))
             up  == \/ q.half > 0
                    \/ q.half = 0 /\ q.t > 0
                    \/ q.half = 0 /\ q.t = 0 /\ q.m[DBL_MANT_DIG] = 1
             inc == Increment(q.m, DBL_MANT_DIG)
             ex  == IF up /\ inc.c = 1 THEN q.e + 1 ELSE q.e
             mant == IF ~up THEN q.m
                     ELSE IF inc.c = 1 THEN [inc.m EXCEPT ![1] = 1]
                     ELSE inc.m
         IN  IF ex >= DBL_MAX_EXP THEN OverflowError
             ELSE IF ex < DBL_MIN_EXP - 1 - DBL_MANT_DIG THEN FloatZero
             ELSE Float(BigSign(a) * BigSign(b), ex, mant)

\* x / y kept exact for ints too, as a Fraction
Div_exact(x, y) ==
    IF Numer(y) = <<>> THEN ZeroDivisionError
    ELSE Fraction(Small(Numer(x)) * y.d, x.d * Small(Numer(y)))

\* x / y
Div(x, y) ==
    IF x.k = "int" /\ y.k = "int" THEN TrueDivide(x.n, y.n)
    ELSE IF Numer(y) = <<>> THEN ZeroDivisionError
    ELSE Fraction(Small(Numer(x)) * y.d, x.d * Small(Numer(y)))

\* ------------------------------------------------------------ the formulas
\* a vector is a pair <<v[0], v[1]>>: Python's v[0] is v[1] here, v[1] is v[2]

\* archimedes with the sign of q_3 flipped
archimedes_sum(q_1, q_2, q_3) ==
    LET temp == Add(Add(q_1, q_2), q_3)
    IN  Sub(Mul(Mul(Int_(4), q_1), q_2), Mul(temp, temp))

\* archimedes normalised by 4 * q_1 * q_2
archimedes_divided(q_1, q_2, q_3) ==
    LET temp == Sub(Add(q_1, q_2), q_3)
        four == Mul(Mul(Int_(4), q_1), q_2)
    IN  Div(Sub(four, Mul(temp, temp)), four)

\* archimedes with 2 * q_1 * q_2 for 4 * q_1 * q_2
archimedes_twice(q_1, q_2, q_3) ==
    LET temp == Sub(Add(q_1, q_2), q_3)
    IN  Sub(Mul(Mul(Int_(2), q_1), q_2), Mul(temp, temp))

\* archimedes subtracting temp instead of temp * temp
archimedes_unsquared(q_1, q_2, q_3) ==
    LET temp == Sub(Add(q_1, q_2), q_3)
    IN  Sub(Mul(Mul(Int_(4), q_1), q_2), temp)

archimedes(q_1, q_2, q_3) ==
    LET temp == Sub(Add(q_1, q_2), q_3)
    IN  Sub(Mul(Mul(Int_(4), q_1), q_2), Mul(temp, temp))

\* cross with the products added
cross_plus(v_1, v_2) == Add(Mul(v_1[1], v_2[2]), Mul(v_1[2], v_2[1]))

\* cross with a wrong index in the second product
cross_index(v_1, v_2) == Sub(Mul(v_1[1], v_2[2]), Mul(v_1[2], v_2[2]))

cross(v_1, v_2) == Sub(Mul(v_1[1], v_2[2]), Mul(v_1[2], v_2[1]))

\* dot adding the second components instead of multiplying them
dot_added(v_1, v_2) == Add(Mul(v_1[1], v_2[1]), Add(v_1[2], v_2[2]))

\* dot with a wrong index in the second product
dot_index(v_1, v_2) == Add(Mul(v_1[1], v_2[1]), Mul(v_1[2], v_2[1]))

\* dot with the products subtracted
dot_minus(v_1, v_2) == Sub(Mul(v_1[1], v_2[1]), Mul(v_1[2], v_2[2]))

dot(v_1, v_2) == Add(Mul(v_1[1], v_2[1]), Mul(v_1[2], v_2[2]))

\* quad with a wrong index in the second product
quad_index(v) == Add(Mul(v[1], v[1]), Mul(v[1], v[2]))

\* quad with the squares subtracted
quad_minus(v) == Sub(Mul(v[1], v[1]), Mul(v[2], v[2]))

\* quad with the second component not squared
quad_unsquared(v) == Add(Mul(v[1], v[1]), v[2])

quad(v) == Add(Mul(v[1], v[1]), Mul(v[2], v[2]))

\* spread with the cross product not squared
spread_unsquared(v_1, v_2) ==
    Div(cross(v_1, v_2), Mul(quad(v_1), quad(v_2)))

\* spread returning 0 for a zero vector instead of dividing
spread_sentinel(v_1, v_2) ==
    LET cross_product == cross(v_1, v_2)
        denominator == Mul(quad(v_1), quad(v_2))
    IN  IF Numer(denominator) = <<>> THEN Int_(0)
        ELSE Div(Mul(cross_product, cross_product), denominator)

spread(v_1, v_2) ==
    LET cross_product == cross(v_1, v_2)
        quad_1 == quad(v_1)
        quad_2 == quad(v_2)
    IN  Div(Mul(cross_product, cross_product), Mul(quad_1, quad_2))

\* spread_law without the division
spread_law_undivided(q_1, q_2, q_3) == archimedes(q_1, q_2, q_3)

\* spread_law dividing by q_1 * q_2, the factor 4 forgotten
spread_law_unscaled(q_1, q_2, q_3) ==
    Div(archimedes(q_1, q_2, q_3), Mul(q_1, q_2))

\* spread_law dividing the denominator by the numerator
spread_law_inverted(q_1, q_2, q_3) ==
    Div(Mul(Mul(Int_(4), q_1), q_2), archimedes(q_1, q_2, q_3))

\* spread_law with q_1 twice in the denominator
spread_law_first(q_1, q_2, q_3) ==
    Div(archimedes(q_1, q_2, q_3), Mul(Mul(Int_(4), q_1), q_1))

spread_law(q_1, q_2, q_3) ==
    LET numerator == archimedes(q_1, q_2, q_3)
        denominator == Mul(Mul(Int_(4), q_1), q_2)
    IN  Div(numerator, denominator)

\* triple_quad_formula squaring q_1 - q_2 instead of q_1 + q_2
triple_quad_formula_minus(q_1, q_2, s_3) ==
    Sub(Mul(Sub(q_1, q_2), Sub(q_1, q_2)),
        Mul(Mul(Mul(Int_(4), q_1), q_2), Sub(Int_(1), s_3)))

\* triple_quad_formula without the factor 4
triple_quad_formula_unscaled(q_1, q_2, s_3) ==
    Sub(Mul(Add(q_1, q_2), Add(q_1, q_2)),
        Mul(Mul(q_1, q_2), Sub(Int_(1), s_3)))

\* triple_quad_formula with 1 + s_3 for 1 - s_3
triple_quad_formula_plus(q_1, q_2, s_3) ==
    Sub(Mul(Add(q_1, q_2), Add(q_1, q_2)),
        Mul(Mul(Mul(Int_(4), q_1), q_2), Add(Int_(1), s_3)))

triple_quad_formula(q_1, q_2, s_3) ==
    Sub(Mul(Add(q_1, q_2), Add(q_1, q_2)),
        Mul(Mul(Mul(Int_(4), q_1), q_2), Sub(Int_(1), s_3)))

\* ------------------------------------------------------------------- calls
\* the int arguments and the Fraction arguments a caller passes: Fractions
\* of denominator 1 (whole) and MaxDen
Ints == {Int_(x) : x \in -MaxNum..MaxNum} \cup {BigInt(<<0, 1>>), BigInt(<<0, -1>>)}

Fractions == {Fraction(x, y) : x \in -MaxNum..MaxNum, y \in {1, MaxDen}}

\* one call takes all its numbers from one domain
Domains == {Ints, Fractions}

None == [k |-> "None", n |-> 0, d |-> 1, e |-> 0, m |-> <<>>]

Zero == Int_(0)

VARIABLES
    fn,      \* the function whose call has just returned ("none": no call)
    v_1,     \* its vector arguments (v for quad)
    v_2,
    q_1,     \* its scalar arguments
    q_2,
    q_3,     \* q_3, or s_3 of triple_quad_formula
    result   \* the value returned or the exception raised

\* concurrent calls: one call per thread, run statement by statement
VARIABLES
    frame,   \* per thread: the function called, its arguments, the statement
             \* it is at and the value it has returned
    locals,  \* per call: the local variables of the function
    heap     \* the vector objects (lists) that callers pass, by object id

vars == <<fn, v_1, v_2, q_1, q_2, q_3, result, frame, locals, heap>>

Threads == 1..NumThreads

\* the two lists the callers hold; one list may be passed to several calls
\* at once, and twice to one call
InitialHeap == << <<Int_(1), Int_(2)>>, <<Int_(-2), Int_(0)>> >>

ObjectIds == DOMAIN InitialHeap

\* a thread that is not in a call
IdleFrame ==
    [fn |-> "none", pc |-> "idle", nested |-> FALSE, v_1 |-> 0, v_2 |-> 0,
     q_1 |-> None, q_2 |-> None, q_3 |-> None, result |-> None]

\* the local variables of a call that has not assigned any
NoLocals ==
    [temp |-> None, cross_product |-> None, quad_1 |-> None, quad_2 |-> None,
     numerator |-> None, denominator |-> None]

Init ==
    /\ fn = "none"
    /\ v_1 = <<Zero, Zero>>
    /\ v_2 = <<Zero, Zero>>
    /\ q_1 = Zero
    /\ q_2 = Zero
    /\ q_3 = Zero
    /\ result = None
    /\ frame = [t \in Threads |-> IdleFrame]
    /\ locals = [t \in Threads |-> NoLocals]
    /\ heap = InitialHeap

\* a call made alone involves no thread
NoThreads == UNCHANGED <<frame, locals, heap>>

NoVectors == v_1' = <<Zero, Zero>> /\ v_2' = <<Zero, Zero>>

NoScalars == q_1' = Zero /\ q_2' = Zero /\ q_3' = Zero

CallDot ==
    /\ fn = "none"
    /\ NoThreads
    /\ \E D \in Domains : \E a \in D \X D, b \in D \X D :
           /\ fn' = "dot" /\ v_1' = a /\ v_2' = b /\ NoScalars
           /\ result' = dot(a, b)

CallCross ==
    /\ fn = "none"
    /\ NoThreads
    /\ \E D \in Domains : \E a \in D \X D, b \in D \X D :
           /\ fn' = "cross" /\ v_1' = a /\ v_2' = b /\ NoScalars
           /\ result' = cross(a, b)

CallQuad ==
    /\ fn = "none"
    /\ NoThreads
    /\ \E D \in Domains : \E a \in D \X D :
           /\ fn' = "quad" /\ v_1' = a /\ v_2' = <<Zero, Zero>> /\ NoScalars
           /\ result' = quad(a)

CallSpread ==
    /\ fn = "none"
    /\ NoThreads
    /\ \E D \in Domains : \E a \in D \X D, b \in D \X D :
           /\ fn' = "spread" /\ v_1' = a /\ v_2' = b /\ NoScalars
           /\ result' = spread(a, b)

CallArchimedes ==
    /\ fn = "none"
    /\ NoThreads
    /\ \E D \in Domains : \E a \in D, b \in D, c \in D :
           /\ fn' = "archimedes" /\ q_1' = a /\ q_2' = b /\ q_3' = c /\ NoVectors
           /\ result' = archimedes(a, b, c)

CallSpreadLaw ==
    /\ fn = "none"
    /\ NoThreads
    /\ \E D \in Domains : \E a \in D, b \in D, c \in D :
           /\ fn' = "spread_law" /\ q_1' = a /\ q_2' = b /\ q_3' = c /\ NoVectors
           /\ result' = spread_law(a, b, c)

CallTripleQuadFormula ==
    /\ fn = "none"
    /\ NoThreads
    /\ \E D \in Domains : \E a \in D, b \in D, c \in D :
           /\ fn' = "triple_quad_formula"
           /\ q_1' = a /\ q_2' = b /\ q_3' = c /\ NoVectors
           /\ result' = triple_quad_formula(a, b, c)

\* the caller takes the result; nothing of a call is kept for the next one
Return ==
    /\ fn # "none"
    /\ NoThreads
    /\ fn' = "none"
    /\ NoVectors
    /\ NoScalars
    /\ result' = None

Next ==
    \/ CallDot
    \/ CallCross
    \/ CallQuad
    \/ CallSpread
    \/ CallArchimedes
    \/ CallSpreadLaw
    \/ CallTripleQuadFormula
    \/ Return

Spec == Init /\ [][Next]_vars

\* ---------------------------------------------- calls mixing int and Fraction
\* the numbers of a call that passes ints and Fractions side by side
Mixed == {Int_(-1), Int_(0), Int_(2)} \cup Fractions

CallDotMixed ==
    /\ fn = "none"
    /\ NoThreads
    /\ \E a \in Mixed \X Mixed, b \in Mixed \X Mixed :
           /\ fn' = "dot" /\ v_1' = a /\ v_2' = b /\ NoScalars
           /\ result' = dot(a, b)

CallCrossMixed ==
    /\ fn = "none"
    /\ NoThreads
    /\ \E a \in Mixed \X Mixed, b \in Mixed \X Mixed :
           /\ fn' = "cross" /\ v_1' = a /\ v_2' = b /\ NoScalars
           /\ result' = cross(a, b)

CallQuadMixed ==
    /\ fn = "none"
    /\ NoThreads
    /\ \E a \in Mixed \X Mixed :
           /\ fn' = "quad" /\ v_1' = a /\ v_2' = <<Zero, Zero>> /\ NoScalars
           /\ result' = quad(a)

CallSpreadMixed ==
    /\ fn = "none"
    /\ NoThreads
    /\ \E a \in Mixed \X Mixed, b \in Mixed \X Mixed :
           /\ fn' = "spread" /\ v_1' = a /\ v_2' = b /\ NoScalars
           /\ result' = spread(a, b)

CallArchimedesMixed ==
    /\ fn = "none"
    /\ NoThreads
    /\ \E a \in Mixed, b \in Mixed, c \in Mixed :
           /\ fn' = "archimedes" /\ q_1' = a /\ q_2' = b /\ q_3' = c /\ NoVectors
           /\ result' = archimedes(a, b, c)

CallSpreadLawMixed ==
    /\ fn = "none"
    /\ NoThreads
    /\ \E a \in Mixed, b \in Mixed, c \in Mixed :
           /\ fn' = "spread_law" /\ q_1' = a /\ q_2' = b /\ q_3' = c /\ NoVectors
           /\ result' = spread_law(a, b, c)

CallTripleQuadFormulaMixed ==
    /\ fn = "none"
    /\ NoThreads
    /\ \E a \in Mixed, b \in Mixed, c \in Mixed :
           /\ fn' = "triple_quad_formula"
           /\ q_1' = a /\ q_2' = b /\ q_3' = c /\ NoVectors
           /\ result' = triple_quad_formula(a, b, c)

NextMixed ==
    \/ CallDotMixed
    \/ CallCrossMixed
    \/ CallQuadMixed
    \/ CallSpreadMixed
    \/ CallArchimedesMixed
    \/ CallSpreadLawMixed
    \/ CallTripleQuadFormulaMixed
    \/ Return

SpecMixed == Init /\ [][NextMixed]_vars

\* ---------------------------------------------- vocabulary of the properties
One == Int_(1)

\* v == (0, 0)
IsZeroVector(v) == Eq(v[1], Zero) /\ Eq(v[2], Zero)

\* v1 - v2, componentwise
VSub(a, b) == <<Sub(a[1], b[1]), Sub(a[2], b[2])>>

\* k*v: (v[0] * k, v[1] * k)
Scale(k, v) == <<Mul(v[1], k), Mul(v[2], k)>>

\* perp((a, b)) = (-b, a)
perp(v) == <<Sub(Zero, v[2]), v[1]>>

VectorFns == {"dot", "cross", "spread"}

ScalarFns == {"archimedes", "spread_law", "triple_quad_formula"}

\* the numbers passed to the call
Args ==
    IF fn \in VectorFns THEN {v_1[1], v_1[2], v_2[1], v_2[2]}
    ELSE IF fn = "quad" THEN {v_1[1], v_1[2]}
    ELSE IF fn \in ScalarFns THEN {q_1, q_2, q_3}
    ELSE {}

AllInt == \A x \in Args : x.k = "int"

AllFraction == \A x \in Args : x.k = "frac"

\* the scalars of the domain the vector v is taken from
ScalarsOf(v) == IF v[1].k = "int" THEN Ints ELSE Fractions

\* scalars to multiply a vector of the domain of v by: a negative one, 0, a
\* positive one and a large (ints) or fractional (Fractions) one
Multipliers(v) ==
    IF v[1].k = "int"
    THEN {Int_(-1), Int_(0), Int_(2), BigInt(<<0, 1>>)}
    ELSE {Fraction(-1, 1), Fraction(0, 1), Fraction(2, 1), Fraction(1, 2)}

\* ------------------------------------------------------------------- C1
\* C1 as stated: whenever a call with integer or rational arguments returns,
\* the value returned is an integer or a rational, never a float.
C1_ExactInExactOut == fn # "none" => result.k # "float"

\* C1, amended: dot, cross, quad, archimedes and triple_quad_formula return an
\* int for int arguments and a Fraction for Fraction arguments; spread and
\* spread_law return a Fraction for Fraction arguments, and for int arguments
\* they return a float, when they return.
C1_ExactnessButIntDivision ==
    /\ fn \in {"dot", "cross", "quad", "archimedes", "triple_quad_formula"} =>
           /\ AllInt => result.k = "int"
           /\ AllFraction => result.k = "frac"
    /\ fn \in {"spread", "spread_law"} =>
           /\ AllFraction => result.k \in {"frac", "ZeroDivisionError"}
           /\ AllInt => result.k \in {"float", "ZeroDivisionError", "OverflowError"}

\* spread of two int vectors has returned a float that is neither 0 nor 1
C1_Witness ==
    /\ fn = "spread" /\ AllInt /\ result.k = "float"
    /\ ~Eq(result, Zero) /\ ~Eq(result, One)

\* ------------------------------------------------------------------- C2
\* C2: for non-zero vectors v1, v2 the value s that spread(v1, v2) returns
\* satisfies 0 <= s <= 1.
C2_SpreadRange ==
    (fn = "spread" /\ ~IsZeroVector(v_1) /\ ~IsZeroVector(v_2)) =>
        Le(Zero, result) /\ Le(result, One)

\* spread has returned a Fraction strictly between 0 and 1
C2_Witness ==
    /\ fn = "spread" /\ result.k = "frac"
    /\ ~IsZeroVector(v_1) /\ ~IsZeroVector(v_2)
    /\ Cmp(Zero, result) < 0 /\ Cmp(result, One) < 0

\* ------------------------------------------------------------------- C3
\* C3: spread raises ZeroDivisionError exactly when v1 or v2 is the zero
\* vector, which is exactly when quad(v1) * quad(v2) == 0, and it returns a
\* value, raising nothing, for every pair of non-zero vectors.
C3_SpreadZeroDivision ==
    fn = "spread" =>
        /\ result = ZeroDivisionError <=> (IsZeroVector(v_1) \/ IsZeroVector(v_2))
        /\ result = ZeroDivisionError <=> Eq(Mul(quad(v_1), quad(v_2)), Zero)
        /\ (~IsZeroVector(v_1) /\ ~IsZeroVector(v_2)) => ~IsError(result)

\* spread of the zero vector and a non-zero vector has raised
C3_Witness ==
    /\ fn = "spread" /\ IsZeroVector(v_1) /\ ~IsZeroVector(v_2)
    /\ result = ZeroDivisionError

\* ------------------------------------------------------------------- C4
\* C4: spread_law(q1, q2, q3) raises ZeroDivisionError exactly when
\* q1 * q2 == 0, and for q1 * q2 != 0 it returns a value and raises nothing,
\* whatever q3 is and also for negative quadrances.
C4_SpreadLawZeroDivision ==
    fn = "spread_law" =>
        /\ result = ZeroDivisionError <=> Eq(Mul(q_1, q_2), Zero)
        /\ ~Eq(Mul(q_1, q_2), Zero) => ~IsError(result)

\* ------------------------------------------------------------------- C5
\* C5: dot, cross, quad, archimedes and triple_quad_formula return a value
\* and raise nothing for all arguments of one domain, zero and negative
\* quadrances included; archimedes(0, 4, 6) == -4, archimedes(-1, 2, 3) == -12.
C5_TotalFunctions ==
    /\ fn \in {"dot", "cross", "quad", "archimedes", "triple_quad_formula"} =>
           ~IsError(result) /\ result # None
    /\ Eq(archimedes(Int_(0), Int_(4), Int_(6)), Int_(-4))
    /\ Eq(archimedes(Int_(-1), Int_(2), Int_(3)), Int_(-12))

\* archimedes has returned a value for a zero q_1 and a negative q_2
C5_Witness ==
    /\ fn = "archimedes" /\ Eq(q_1, Zero) /\ Cmp(q_2, Zero) < 0
    /\ ~IsError(result)

\* ------------------------------------------------------------------- C6
\* C6 as stated: archimedes, spread_law and triple_quad_formula each raise
\* ZeroDivisionError when q1 or q2 is zero.
C6_AllThreeDivide ==
    (fn \in ScalarFns /\ (Eq(q_1, Zero) \/ Eq(q_2, Zero))) =>
        result = ZeroDivisionError

\* C6, amended: of the three only spread_law divides by 4*q1*q2 and raises
\* ZeroDivisionError when q1 or q2 is zero; archimedes and
\* triple_quad_formula do not divide and return a value there.
C6_OnlySpreadLawDivides ==
    (Eq(q_1, Zero) \/ Eq(q_2, Zero)) =>
        /\ fn = "spread_law" => result = ZeroDivisionError
        /\ fn \in {"archimedes", "triple_quad_formula"} => ~IsError(result)

\* with q_1 zero and q_2 not, triple_quad_formula has returned a value
C6_Witness ==
    /\ fn = "triple_quad_formula" /\ Eq(q_1, Zero) /\ ~Eq(q_2, Zero)
    /\ ~IsError(result)

\* ------------------------------------------------------------------- C7
\* C7: for non-zero vectors v1, v2 the spread computed from the vectors is
\* the spread the spread law gives for the triangle's quadrances:
\* spread(v1, v2) == spread_law(quad(v1), quad(v2), quad(v1 - v2)).
C7_SpreadLawVectorConsistency ==
    (fn = "spread" /\ ~IsZeroVector(v_1) /\ ~IsZeroVector(v_2)) =>
        Eq(result, spread_law(quad(v_1), quad(v_2), quad(VSub(v_1, v_2))))

\* spread of two non-zero, non-parallel, non-perpendicular vectors has
\* returned
C7_Witness ==
    /\ fn = "spread" /\ ~IsZeroVector(v_1) /\ ~IsZeroVector(v_2)
    /\ ~Eq(cross(v_1, v_2), Zero) /\ ~Eq(dot(v_1, v_2), Zero)
    /\ ~IsError(result)

\* ------------------------------------------------------------------- C8
\* C8 (Lagrange identity): for all vectors v1, v2,
\* dot(v1, v2)^2 + cross(v1, v2)^2 == quad(v1) * quad(v2).
C8_LagrangeIdentity ==
    /\ fn = "dot" =>
           Eq(Add(Mul(result, result), Mul(cross(v_1, v_2), cross(v_1, v_2))),
              Mul(quad(v_1), quad(v_2)))
    /\ fn = "cross" =>
           Eq(Add(Mul(dot(v_1, v_2), dot(v_1, v_2)), Mul(result, result)),
              Mul(quad(v_1), quad(v_2)))

\* dot has returned a non-zero value for vectors of non-zero cross product
C8_Witness ==
    /\ fn = "dot" /\ ~Eq(result, Zero) /\ ~Eq(cross(v_1, v_2), Zero)

\* ------------------------------------------------------------------- C9
\* C9: for a non-zero vector v and a scalar k != 0 of either sign,
\* spread(v, k*v) == 0.
C9_SpreadParallel ==
    (fn = "spread" /\ ~IsZeroVector(v_1)) =>
        /\ \A k \in ScalarsOf(v_1) :
               (~Eq(k, Zero) /\ v_2 = Scale(k, v_1)) => Eq(result, Zero)
        /\ \A k \in Multipliers(v_1) :
               ~Eq(k, Zero) => Eq(spread(v_1, Scale(k, v_1)), Zero)

\* spread of a vector and a negative multiple of it has returned 0
C9_Witness ==
    /\ fn = "spread" /\ ~IsZeroVector(v_1)
    /\ \E k \in ScalarsOf(v_1) : Cmp(k, Zero) < 0 /\ v_2 = Scale(k, v_1)
    /\ Eq(result, Zero)

\* ------------------------------------------------------------------ C10
\* C10: for a non-zero vector v = (a, b), spread(v, perp(v)) == 1, where
\* perp((a, b)) = (-b, a).
C10_SpreadPerpendicular ==
    (fn = "spread" /\ ~IsZeroVector(v_1) /\ v_2 = perp(v_1)) =>
        Eq(result, One)

\* spread of v and perp(v) has returned 1 for a v with two non-zero components
C10_Witness ==
    /\ fn = "spread" /\ v_2 = perp(v_1)
    /\ ~Eq(v_1[1], Zero) /\ ~Eq(v_1[2], Zero)
    /\ Eq(result, One)

\* ---------------------------------------- vocabulary of the further properties
\* x * x
Sq(x) == Mul(x, x)

\* 4 * q1 * q2
FourTimes(a, b) == Mul(Mul(Int_(4), a), b)

\* x and y are positive / not negative
IsPositive(x) == ~IsError(x) /\ Cmp(x, Zero) > 0

NotNegative(x) == ~IsError(x) /\ Cmp(x, Zero) >= 0

\* ------------------------------------------------------------------ C11
\* C11: for rational q1, q2, q3 with q1 * q2 != 0, spread_law(q1, q2, q3) is
\* archimedes(q1, q2, q3) / (4*q1*q2) and is 1 - (q1+q2-q3)^2 / (4*q1*q2);
\* spread_law(5, 25, 20) == 4/5, spread_law(1, 1, 4) == 0 and
\* spread_law(1, 1, 0) == 0.
SpreadLawExamples ==
    /\ Eq(spread_law(Fraction(5, 1), Fraction(25, 1), Fraction(20, 1)),
          Fraction(4, 5))
    /\ Eq(spread_law(Fraction(1, 1), Fraction(1, 1), Fraction(4, 1)), Zero)
    /\ Eq(spread_law(Fraction(1, 1), Fraction(1, 1), Fraction(0, 1)), Zero)

C11_SpreadLawFormula ==
    /\ (fn = "spread_law" /\ AllFraction /\ ~Eq(Mul(q_1, q_2), Zero)) =>
           /\ Eq(result, Div(archimedes(q_1, q_2, q_3), FourTimes(q_1, q_2)))
           /\ Eq(result, Sub(One, Div(Sq(Sub(Add(q_1, q_2), q_3)),
                                      FourTimes(q_1, q_2))))
    /\ fn = "spread_law" => SpreadLawExamples

\* spread_law has returned a Fraction that is neither 0 nor 1
C11_Witness ==
    /\ fn = "spread_law" /\ AllFraction /\ result.k = "frac"
    /\ ~Eq(result, Zero) /\ ~Eq(result, One)

\* ------------------------------------------------------------------ C12
\* (q1 + q2 - q3)^2 <= 4*q1*q2
TriangleInequality(a, b, c) == Le(Sq(Sub(Add(a, b), c)), FourTimes(a, b))

InUnitInterval(x) == Le(Zero, x) /\ Le(x, One)

\* C12: for positive q1, q2, q3 with (q1+q2-q3)^2 <= 4*q1*q2, archimedes is
\* not negative and spread_law lies in [0, 1]; for positive triples violating
\* the inequality spread_law returns a value outside [0, 1], not an error.
C12_TriangleRange ==
    (IsPositive(q_1) /\ IsPositive(q_2) /\ IsPositive(q_3)) =>
        /\ (fn = "archimedes" /\ TriangleInequality(q_1, q_2, q_3)) =>
               NotNegative(result)
        /\ (fn = "spread_law" /\ TriangleInequality(q_1, q_2, q_3)) =>
               InUnitInterval(result)
        /\ (fn = "spread_law" /\ ~TriangleInequality(q_1, q_2, q_3)) =>
               ~IsError(result) /\ ~InUnitInterval(result)

\* ------------------------------------------------------------------ C13
\* Two calls end alike: with equal values, or with the same exception
SameResult(x, y) == IF IsError(x) \/ IsError(y) THEN x = y ELSE Eq(x, y)

C14_NotSymmetricInQ3 ==
    \E D \in Domains : \E a \in D, b \in D, c \in D :
        ~Eq(archimedes(a, b, c), archimedes(c, b, a))

\* C14: archimedes is symmetric in all three arguments: archimedes(q1, q2,
\* q3) == archimedes(q3, q2, q1) == archimedes(q1, q3, q2) ==
\* archimedes(q2, q1, q3) for all q1, q2, q3.
C14_FullySymmetric ==
    fn = "archimedes" =>
        /\ Eq(result, archimedes(q_3, q_2, q_1))
        /\ Eq(result, archimedes(q_1, q_3, q_2))
        /\ Eq(result, archimedes(q_2, q_1, q_3))

\* archimedes has returned a value other than 0 for three different arguments
C14_Witness ==
    /\ fn = "archimedes" /\ ~Eq(result, Zero)
    /\ ~Eq(q_1, q_2) /\ ~Eq(q_2, q_3) /\ ~Eq(q_1, q_3)

\* ------------------------------------------------------------------ C15
\* The quadrances of three collinear points at distances a, b and a + b
CollinearTriples ==
    UNION {{<<Sq(a), Sq(b), Sq(Add(a, b))>> : a \in D, b \in D} : D \in Domains}

IsCollinearTriple(x, y, z) == <<x, y, z>> \in CollinearTriples

\* C15: archimedes(a*a, b*b, (a+b)*(a+b)) == 0 for all exact a, b, as in
\* archimedes(1, 4, 9) == 0; in general archimedes returns
\* 4*q1*q2 - (q1+q2-q3)^2: archimedes(2, 4, 6) == 32 and
\* archimedes(1/2, 1/4, 1/6) == 23/144.
\* (The arguments of the call serve as a and b in the third conjunct.)
ArchimedesExamples ==
    /\ Eq(archimedes(Int_(1), Int_(4), Int_(9)), Zero)
    /\ Eq(archimedes(Int_(2), Int_(4), Int_(6)), Int_(32))
    /\ Eq(archimedes(Fraction(1, 2), Fraction(1, 4), Fraction(1, 6)),
          Fraction(23, 144))

C15_CollinearZero ==
    /\ fn = "archimedes" =>
           /\ Eq(result, Sub(FourTimes(q_1, q_2), Sq(Sub(Add(q_1, q_2), q_3))))
           /\ IsCollinearTriple(q_1, q_2, q_3) => Eq(result, Zero)
           /\ Eq(archimedes(Sq(q_1), Sq(q_2), Sq(Add(q_1, q_2))), Zero)
           /\ ArchimedesExamples

\* archimedes has been called with the quadrances of three different
\* collinear points
C15_Witness ==
    /\ fn = "archimedes" /\ IsCollinearTriple(q_1, q_2, q_3)
    /\ ~Eq(q_1, Zero) /\ ~Eq(q_2, Zero)
    /\ Eq(result, Zero)

\* ------------------------------------------------------------------ C16
\* C16: triple_quad_formula(q1, q2, s3) returns
\* (q1+q2)^2 - 4*q1*q2*(1 - s3) for all arguments: (q1-q2)^2 at s3 = 0 and
\* (q1+q2)^2 at s3 = 1; triple_quad_formula(5, 25, 4/125) == 416, not 20.
TripleQuadFormulaExample ==
    /\ Eq(triple_quad_formula(Int_(5), Int_(25), Fraction(4, 125)), Int_(416))
    /\ ~Eq(triple_quad_formula(Int_(5), Int_(25), Fraction(4, 125)), Int_(20))

C16_TripleQuadFormula ==
    /\ fn = "triple_quad_formula" =>
           /\ Eq(result, Sub(Sq(Add(q_1, q_2)),
                             Mul(FourTimes(q_1, q_2), Sub(One, q_3))))
           /\ Eq(q_3, Zero) => Eq(result, Sq(Sub(q_1, q_2)))
           /\ Eq(q_3, One) => Eq(result, Sq(Add(q_1, q_2)))
           /\ TripleQuadFormulaExample

\* triple_quad_formula has returned a value other than 0 for a spread strictly
\* between 0 and 1
C16_Witness ==
    /\ fn = "triple_quad_formula"
    /\ IsPositive(q_3) /\ Cmp(q_3, One) < 0
    /\ ~Eq(Mul(q_1, q_2), Zero) /\ ~Eq(result, Zero)

\* ------------------------------------------------------------------ C17
\* C17: for q1 >= 0, q2 >= 0 and 0 <= s3 <= 1, triple_quad_formula(q1, q2, s3)
\* is not negative.
C17_TripleQuadNotNegative ==
    (/\ fn = "triple_quad_formula"
     /\ NotNegative(q_1) /\ NotNegative(q_2) /\ InUnitInterval(q_3)) =>
        NotNegative(result)

\* triple_quad_formula has returned a positive value for positive quadrances
\* and a spread strictly between 0 and 1
C17_Witness ==
    /\ fn = "triple_quad_formula"
    /\ IsPositive(q_1) /\ IsPositive(q_2)
    /\ IsPositive(q_3) /\ Cmp(q_3, One) < 0
    /\ IsPositive(result)

\* ------------------------------------------------------------------ C18
\* triple_quad_formula(q1, q2, spread_law(q1, q2, q3))
RoundTrip(a, b, c) == triple_quad_formula(a, b, spread_law(a, b, c))

\* C18 as stated: for q1, q2, q3 with q1 * q2 != 0 the spread returned by
\* spread_law(q1, q2, q3), fed back into triple_quad_formula(q1, q2, .),
\* gives neither q3 nor q3 * q3.
C18_RoundTripNeverReproduces ==
    (fn = "spread_law" /\ AllFraction /\ ~Eq(Mul(q_1, q_2), Zero)) =>
        /\ ~Eq(triple_quad_formula(q_1, q_2, result), q_3)
        /\ ~Eq(triple_quad_formula(q_1, q_2, result), Sq(q_3))

\* C18: for rational q1, q2, q3 with q1 * q2 != 0 the round trip gives
\* q3 * q3 only when q3 == 0 or q3 == q1 + q2 and gives q3 only when q3 == 0
\* or 2*(q1+q2) - q3 == 1, and neither of the two for every other triple.
C18_RoundTripSeldomReproduces ==
    (fn = "spread_law" /\ AllFraction /\ ~Eq(Mul(q_1, q_2), Zero)) =>
        /\ result = spread_law(q_1, q_2, q_3)
        /\ Eq(RoundTrip(q_1, q_2, q_3), Sq(q_3)) <=>
               (Eq(q_3, Zero) \/ Eq(q_3, Add(q_1, q_2)))
        /\ Eq(RoundTrip(q_1, q_2, q_3), q_3) <=>
               (\/ Eq(q_3, Zero)
                \/ Eq(Sub(Mul(Int_(2), Add(q_1, q_2)), q_3), One))

\* spread_law has returned a spread that triple_quad_formula takes to
\* neither q3 nor q3 * q3
C18_Witness ==
    /\ fn = "spread_law" /\ AllFraction /\ ~Eq(Mul(q_1, q_2), Zero)
    /\ ~IsError(triple_quad_formula(q_1, q_2, result))
    /\ ~Eq(triple_quad_formula(q_1, q_2, result), q_3)
    /\ ~Eq(triple_quad_formula(q_1, q_2, result), Sq(q_3))

\* ------------------------------------------------------------------ C19
\* C19: dot(v1, v2) == dot(v2, v1); dot(v, v) >= 0, and dot(v, v) == 0
\* exactly when v == (0, 0).
C19_DotSymmetric ==
    fn = "dot" =>
        /\ Eq(result, dot(v_2, v_1))
        /\ NotNegative(dot(v_1, v_1))
        /\ Eq(dot(v_1, v_1), Zero) <=> IsZeroVector(v_1)
        /\ v_1 = v_2 =>
               /\ NotNegative(result)
               /\ Eq(result, Zero) <=> IsZeroVector(v_1)

\* dot of a non-zero vector with itself has returned a positive value
C19_Witness ==
    /\ fn = "dot" /\ v_1 = v_2
    /\ ~Eq(v_1[1], Zero) /\ ~Eq(v_1[2], Zero)
    /\ IsPositive(result)

\* ------------------------------------------------------------------ C20
\* -x
Neg(x) == Sub(Zero, x)

\* C20: cross(v1, v2) == -cross(v2, v1); cross(v, v) == 0, and more generally
\* cross(v, k*v) == 0 for every scalar k; cross((1, 2), (3, 4)) == -2.
CrossExample ==
    Eq(cross(<<Int_(1), Int_(2)>>, <<Int_(3), Int_(4)>>), Int_(-2))

C20_CrossAntisymmetric ==
    /\ fn = "cross" =>
           /\ Eq(result, Neg(cross(v_2, v_1)))
           /\ Eq(cross(v_1, v_1), Zero)
           /\ v_1 = v_2 => Eq(result, Zero)
           /\ \A k \in ScalarsOf(v_1) :
                  v_2 = Scale(k, v_1) => Eq(result, Zero)
           /\ \A k \in Multipliers(v_1) :
                  Eq(cross(v_1, Scale(k, v_1)), Zero)
           /\ CrossExample

\* cross has returned a value other than 0
C20_Witness ==
    /\ fn = "cross" /\ ~Eq(result, Zero)
    /\ Eq(result, Neg(cross(v_2, v_1)))

\* ------------------------------------------------------------------ C21
\* C21: for every vector v, components of either sign: quad(v) >= 0,
\* quad(v) == 0 exactly when both components are 0, and
\* quad(k*v) == k*k*quad(v) for every scalar k; quad((3, 4)) == 25.
QuadExample == Eq(quad(<<Int_(3), Int_(4)>>), Int_(25))

C21_QuadProperties ==
    /\ fn = "quad" =>
           /\ NotNegative(result)
           /\ Eq(result, Zero) <=> IsZeroVector(v_1)
           /\ \A k \in ScalarsOf(v_1) :
                  Eq(quad(Scale(k, v_1)), Mul(Mul(k, k), result))
           /\ QuadExample

\* quad has returned a positive value for a vector with a negative component
C21_Witness ==
    /\ fn = "quad" /\ IsPositive(result)
    /\ Cmp(v_1[1], Zero) < 0 /\ ~Eq(v_1[2], Zero)

\* ------------------------------------------------------------------ C22
\* v1 + v2, componentwise
VAdd(a, b) == <<Add(a[1], b[1]), Add(a[2], b[2])>>

\* vectors to add to a vector of the domain of v: a negative, a positive and
\* a large (ints) or fractional (Fractions) component
Addends(v) ==
    LET S == IF v[1].k = "int"
             THEN {Int_(-1), Int_(2), BigInt(<<0, 1>>)}
             ELSE {Fraction(-1, 1), Fraction(2, 1), Fraction(1, 2)}
    IN  {<<x, y>> : x \in S, y \in S}

\* C22: dot and cross are bilinear: for all vectors v, w, u and scalars k,
\* dot(k*v, w) == k*dot(v, w), cross(k*v, w) == k*cross(v, w) and
\* dot(v, w + u) == dot(v, w) + dot(v, u).
C22_Bilinear ==
    /\ fn = "dot" =>
           /\ \A k \in Multipliers(v_1) :
                  Eq(dot(Scale(k, v_1), v_2), Mul(k, result))
           /\ \A u \in Addends(v_1) :
                  Eq(dot(v_1, VAdd(v_2, u)), Add(result, dot(v_1, u)))
    /\ fn = "cross" =>
           \A k \in Multipliers(v_1) :
               Eq(cross(Scale(k, v_1), v_2), Mul(k, result))

\* dot has returned a value other than 0 for vectors without a zero component
C22_Witness ==
    /\ fn = "dot" /\ ~Eq(result, Zero)
    /\ ~Eq(v_1[1], Zero) /\ ~Eq(v_1[2], Zero)
    /\ ~Eq(v_2[1], Zero) /\ ~Eq(v_2[2], Zero)

\* ------------------------------------------------------------------ C23
\* C23: for all vectors v1, v2 of one exact domain,
\* quad(v1) + quad(v2) == quad(v1 + v2) - 2*dot(v1, v2).
C23_QuadOfSum ==
    fn = "dot" =>
        Eq(Add(quad(v_1), quad(v_2)),
           Sub(quad(VAdd(v_1, v_2)), Mul(Int_(2), result)))

\* dot has returned a value other than 0 for two different vectors without a
\* zero component
C23_Witness ==
    /\ fn = "dot" /\ ~Eq(result, Zero) /\ v_1 # v_2
    /\ ~Eq(v_1[1], Zero) /\ ~Eq(v_1[2], Zero)
    /\ ~Eq(v_2[1], Zero) /\ ~Eq(v_2[2], Zero)
    /\ ~IsZeroVector(VAdd(v_1, v_2))

\* ------------------------------------------------------------------ C24
\* the call passes at least one int and at least one Fraction
IsMixed ==
    /\ \E x \in Args : x.k = "int"
    /\ \E x \in Args : x.k = "frac"

\* an int taken as the Fraction of denominator 1
Promote(x) == IF x.k = "int" THEN Fraction(Small(x.n), 1) ELSE x

PromoteVector(v) == <<Promote(v[1]), Promote(v[2])>>

\* what the call of the state returns once every int argument is a Fraction
PromotedResult ==
    CASE fn = "dot" -> dot(PromoteVector(v_1), PromoteVector(v_2))
      [] fn = "cross" -> cross(PromoteVector(v_1), PromoteVector(v_2))
      [] fn = "quad" -> quad(PromoteVector(v_1))
      [] fn = "spread" -> spread(PromoteVector(v_1), PromoteVector(v_2))
      [] fn = "archimedes" ->
             archimedes(Promote(q_1), Promote(q_2), Promote(q_3))
      [] fn = "spread_law" ->
             spread_law(Promote(q_1), Promote(q_2), Promote(q_3))
      [] fn = "triple_quad_formula" ->
             triple_quad_formula(Promote(q_1), Promote(q_2), Promote(q_3))
      [] OTHER -> None

\* C24: a call that mixes int and Fraction arguments is not rejected: each
\* of the seven functions returns the Fraction (never a float) that it
\* returns when the ints are passed as Fractions;
\* archimedes(1, 1/2, 2) == 7/4 and triple_quad_formula(5, 25, 4/125) == 416.
MixedExamples ==
    /\ archimedes(Int_(1), Fraction(1, 2), Int_(2)) = Fraction(7, 4)
    /\ triple_quad_formula(Int_(5), Int_(25), Fraction(4, 125))
           = Fraction(416, 1)

C24_MixedPromotion ==
    /\ IsMixed =>
           /\ result.k \in {"frac", "ZeroDivisionError"}
           /\ result = PromotedResult
    /\ fn \in {"archimedes", "triple_quad_formula"} => MixedExamples

\* spread_law has returned a Fraction for two ints and a Fraction
C24_Witness ==
    /\ fn = "spread_law" /\ result.k = "frac"
    /\ q_1.k = "int" /\ q_2.k = "int" /\ q_3.k = "frac"
    /\ ~Eq(result, Zero)

\* ------------------------------------------------------- concurrent calls
\* Each thread calls the functions over and over; a call runs one statement
\* at a time, and the statements of different threads interleave freely.
\* frame[t].pc is the source line the call of thread t is at.

\* a statement of a concurrent call leaves the call made alone untouched
NoCall == UNCHANGED <<fn, v_1, v_2, q_1, q_2, q_3, result>>

\* the scalars the threads pass for q_1 and q_2 (they pass 1 for q_3, s_3)
ThreadScalars == {Int_(0), Int_(2)}

\* where the local variables of the call of thread t live: in the call's own
\* frame
Local_shared(t) == 1

Local(t) == t

\* the first statement of each function
FirstLine(f) ==
    CASE f = "archimedes" -> "85"
      [] f = "cross" -> "119"
      [] f = "dot" -> "154"
      [] f = "quad" -> "186"
      [] f = "spread" -> "209"
      [] f = "spread_law" -> "238"
      [] f = "triple_quad_formula" -> "496"

\* thread t moves to frame f with local variables l
Step(t, f, l) ==
    /\ frame' = [frame EXCEPT ![t] = f]
    /\ locals' = [locals EXCEPT ![Local(t)] = l]
    /\ heap' = heap
    /\ NoCall

\* thread t calls a function of vectors, passing lists by reference
BeginVector(t) ==
    /\ frame[t].pc = "idle"
    /\ \E f \in VectorFns \cup {"quad"}, a \in ObjectIds, b \in ObjectIds :
           Step(t, [IdleFrame EXCEPT !.fn = f, !.pc = FirstLine(f),
                                     !.v_1 = a,
                                     !.v_2 = IF f = "quad" THEN 0 ELSE b],
                NoLocals)

\* thread t calls a function of scalars
BeginScalar(t) ==
    /\ frame[t].pc = "idle"
    /\ \E f \in ScalarFns, a \in ThreadScalars, b \in ThreadScalars :
           Step(t, [IdleFrame EXCEPT !.fn = f, !.pc = FirstLine(f),
                                     !.q_1 = a, !.q_2 = b, !.q_3 = One],
                NoLocals)

\* return v_1[0] * v_2[1] - v_1[1] * v_2[0]
cross_return(t) ==
    /\ frame[t].pc = "119"
    /\ Step(t, [frame[t] EXCEPT !.pc = "done",
                    !.result = cross(heap[frame[t].v_1], heap[frame[t].v_2])],
            locals[Local(t)])

\* return v_1[0] * v_2[0] + v_1[1] * v_2[1]
dot_return(t) ==
    /\ frame[t].pc = "154"
    /\ Step(t, [frame[t] EXCEPT !.pc = "done",
                    !.result = dot(heap[frame[t].v_1], heap[frame[t].v_2])],
            locals[Local(t)])

\* return v[0] * v[0] + v[1] * v[1]
quad_return(t) ==
    /\ frame[t].pc = "186"
    /\ Step(t, [frame[t] EXCEPT !.pc = "done",
                    !.result = quad(heap[frame[t].v_1])],
            locals[Local(t)])

\* cross_product = cross(v_1, v_2)
spread_cross_product(t) ==
    /\ frame[t].pc = "209"
    /\ Step(t, [frame[t] EXCEPT !.pc = "210"],
            [locals[Local(t)] EXCEPT
                !.cross_product =
                    cross(heap[frame[t].v_1], heap[frame[t].v_2])])

\* quad_1 = quad(v_1)
spread_quad_1(t) ==
    /\ frame[t].pc = "210"
    /\ Step(t, [frame[t] EXCEPT !.pc = "211"],
            [locals[Local(t)] EXCEPT !.quad_1 = quad(heap[frame[t].v_1])])

\* quad_2 = quad(v_2)
spread_quad_2(t) ==
    /\ frame[t].pc = "211"
    /\ Step(t, [frame[t] EXCEPT !.pc = "212"],
            [locals[Local(t)] EXCEPT !.quad_2 = quad(heap[frame[t].v_2])])

\* return (cross_product * cross_product) / (quad_1 * quad_2)
spread_return(t) ==
    /\ frame[t].pc = "212"
    /\ LET l == locals[Local(t)]
       IN  Step(t, [frame[t] EXCEPT !.pc = "done",
                        !.result = Div(Mul(l.cross_product, l.cross_product),
                                       Mul(l.quad_1, l.quad_2))],
                l)

\* temp = q_1 + q_2 - q_3
archimedes_temp(t) ==
    /\ frame[t].pc = "85"
    /\ Step(t, [frame[t] EXCEPT !.pc = "86"],
            [locals[Local(t)] EXCEPT
                !.temp = Sub(Add(frame[t].q_1, frame[t].q_2), frame[t].q_3)])

\* return 4 * q_1 * q_2 - temp * temp: to the caller of the thread, or to
\* spread_law when it made the call
archimedes_return(t) ==
    /\ frame[t].pc = "86"
    /\ LET l == locals[Local(t)]
           value == Sub(Mul(Mul(Int_(4), frame[t].q_1), frame[t].q_2),
                        Mul(l.temp, l.temp))
       IN  IF frame[t].nested
           THEN Step(t, [frame[t] EXCEPT !.pc = "239", !.nested = FALSE],
                     [l EXCEPT !.numerator = value])
           ELSE Step(t, [frame[t] EXCEPT !.pc = "done", !.result = value], l)

\* numerator = archimedes(q_1, q_2, q_3): the call is entered
spread_law_numerator(t) ==
    /\ frame[t].pc = "238"
    /\ Step(t, [frame[t] EXCEPT !.pc = "85", !.nested = TRUE],
            locals[Local(t)])

\* denominator = 4 * q_1 * q_2
spread_law_denominator(t) ==
    /\ frame[t].pc = "239"
    /\ Step(t, [frame[t] EXCEPT !.pc = "240"],
            [locals[Local(t)] EXCEPT
                !.denominator =
                    Mul(Mul(Int_(4), frame[t].q_1), frame[t].q_2)])

\* return numerator / denominator
spread_law_return(t) ==
    /\ frame[t].pc = "240"
    /\ LET l == locals[Local(t)]
       IN  Step(t, [frame[t] EXCEPT !.pc = "done",
                        !.result = Div(l.numerator, l.denominator)],
                l)

\* return (q_1 + q_2) * (q_1 + q_2) - 4 * q_1 * q_2 * (1 - s_3)
triple_quad_formula_return(t) ==
    /\ frame[t].pc = "496"
    /\ Step(t, [frame[t] EXCEPT !.pc = "done",
                    !.result = triple_quad_formula(frame[t].q_1, frame[t].q_2,
                                                   frame[t].q_3)],
            locals[Local(t)])

\* the caller takes the result; the local variables of the call are gone
Finish(t) ==
    /\ frame[t].pc = "done"
    /\ Step(t, IdleFrame, NoLocals)

NextConcurrent ==
    \/ \E t \in Threads : BeginVector(t)
    \/ \E t \in Threads : BeginScalar(t)
    \/ \E t \in Threads : cross_return(t)
    \/ \E t \in Threads : dot_return(t)
    \/ \E t \in Threads : quad_return(t)
    \/ \E t \in Threads : spread_cross_product(t)
    \/ \E t \in Threads : spread_quad_1(t)
    \/ \E t \in Threads : spread_quad_2(t)
    \/ \E t \in Threads : spread_return(t)
    \/ \E t \in Threads : archimedes_temp(t)
    \/ \E t \in Threads : archimedes_return(t)
    \/ \E t \in Threads : spread_law_numerator(t)
    \/ \E t \in Threads : spread_law_denominator(t)
    \/ \E t \in Threads : spread_law_return(t)
    \/ \E t \in Threads : triple_quad_formula_return(t)
    \/ \E t \in Threads : Finish(t)

SpecConcurrent == Init /\ [][NextConcurrent]_vars

\* ------------------------------------------------------------------ C25
\* what the call of frame f returns when it runs alone on its arguments
Alone(f) ==
    CASE f.fn = "dot" -> dot(InitialHeap[f.v_1], InitialHeap[f.v_2])
      [] f.fn = "cross" -> cross(InitialHeap[f.v_1], InitialHeap[f.v_2])
      [] f.fn = "quad" -> quad(InitialHeap[f.v_1])
      [] f.fn = "spread" -> spread(InitialHeap[f.v_1], InitialHeap[f.v_2])
      [] f.fn = "archimedes" -> archimedes(f.q_1, f.q_2, f.q_3)
      [] f.fn = "spread_law" -> spread_law(f.q_1, f.q_2, f.q_3)
      [] f.fn = "triple_quad_formula" ->
             triple_quad_formula(f.q_1, f.q_2, f.q_3)
      [] OTHER -> None

\* every finished call has returned what it returns alone, and the lists
\* passed are as the callers made them
ReturnsAsAlone ==
    /\ \A t \in Threads :
           frame[t].pc = "done" => frame[t].result = Alone(frame[t])
    /\ heap = InitialHeap

\* a statement of one call changes nothing that belongs to another call
TouchesOwnCallOnly ==
    \A t \in Threads :
        frame'[t] # frame[t] =>
            \A u \in Threads \ {t} :
                frame'[u] = frame[u] /\ locals'[u] = locals[u]

\* C25: the functions may be called concurrently without synchronization:
\* in every interleaving each call returns the value, or raises the
\* exception, that the same call returns or raises when run alone on the same
\* arguments; no call reads or writes what belongs to another call, and no
\* call modifies its argument vectors.
C25_ConcurrentCalls == []ReturnsAsAlone /\ [][TouchesOwnCallOnly]_vars

\* a call of spread_law has returned a float while another thread is inside
\* archimedes with a different value of temp
C25_Witness ==
    \E t \in Threads, u \in Threads :
        /\ frame[t].fn = "spread_law" /\ frame[t].pc = "done"
        /\ frame[t].result.k = "float"
        /\ frame[u].fn = "archimedes" /\ frame[u].pc = "86"
        /\ locals[u].temp # locals[t].temp

\* ------------------------------------------------------------------ C26
\* q3 * (2*(q1 + q2) - q3)
RoundTripValue(a, b, c) == Mul(c, Sub(Mul(Int_(2), Add(a, b)), c))

\* C26: for rational q1, q2, q3 with q1 * q2 != 0,
\* triple_quad_formula(q1, q2, spread_law(q1, q2, q3)) ==
\* q3 * (2*(q1 + q2) - q3), which is q3 * q3 exactly when q3 == q1 + q2 or
\* q3 == 0.
C26_RoundTripValue ==
    (fn = "spread_law" /\ AllFraction /\ ~Eq(Mul(q_1, q_2), Zero)) =>
        /\ Eq(triple_quad_formula(q_1, q_2, result),
              RoundTripValue(q_1, q_2, q_3))
        /\ Eq(triple_quad_formula(q_1, q_2, result), Sq(q_3)) <=>
               (Eq(q_3, Add(q_1, q_2)) \/ Eq(q_3, Zero))

\* spread_law has returned the spread that triple_quad_formula takes to
\* q3 * q3, for a q3 == q1 + q2 other than 0
C26_Witness ==
    /\ fn = "spread_law" /\ AllFraction /\ ~Eq(Mul(q_1, q_2), Zero)
    /\ ~Eq(q_3, Zero) /\ Eq(q_3, Add(q_1, q_2))
    /\ Eq(triple_quad_formula(q_1, q_2, result), Sq(q_3))

====
